---- MODULE Spec2Model ----
(***************************************************************************)
(* Model of get_time_agent.py: a five-node workflow                         *)
(*   START -> get_time -> get_month_name -> format -> {is_AM | is_PM} -> END *)
(* run once by main().  The state record is a Python dict: a slot is        *)
(* present when its key is in the DOMAIN of the function that models it.    *)
(***************************************************************************)
EXTENDS Integers, Sequences, FiniteSets, TLC

VARIABLES
    graph,        \* the workflow main() builds: nodes, edges, conditional edges
    compiled,     \* "none" | "ok" | "GraphConfigurationError"
    run,          \* "Ready" | "Running" | "Completed" | "Failed"
    current,      \* name of the step the run is at, "none" outside Running
    pos,          \* "exec": current is about to execute; "route": it completed
    state,        \* the AgentState dict of the run
    trace,        \* names of the steps executed so far, in order
    failed_step,  \* name of the step whose exception ended the run
    error_kind,   \* "none" | "StepExecutionError" | "BranchEvaluationError"
    lookup,       \* outcome of the HTTP request made by the get_time tool
    printed,      \* TRUE once main() has printed result["final_answer"]
    output,       \* what main() printed
    runs          \* the runs of further callers invoking the compiled graph

vars == <<graph, compiled, run, current, pos, state, trace, failed_step,
          error_kind, lookup, printed, output, runs>>

----------------------------------------------------------------------------
(* Bounds of the model *)

MaxMonth == 2
NumOffsets == 2
NumMonthNames == 2
NumEmoji == 2

(* Program constants *)

Noon == 12

----------------------------------------------------------------------------
(* The graph *)

START == "__start__"
END == "__end__"

Nodes == {"get_time", "get_month_name", "format", "is_AM", "is_PM"}

\* The labels the decision function is declared to return (its Literal type).
Labels == {"is_AM", "is_PM"}

\* Mutants of MainEdges: an edge leading back into the chain, the first two
\* steps registered in the wrong order, the START edge left out.
MainEdgesLoop ==
    { <<START, "get_time">>,
      <<"get_time", "get_month_name">>,
      <<"get_month_name", "format">>,
      <<"is_AM", "format">>,
      <<"is_PM", END>> }

MainEdgesSwapped ==
    { <<START, "get_month_name">>,
      <<"get_month_name", "get_time">>,
      <<"get_time", "format">>,
      <<"is_AM", END>>,
      <<"is_PM", END>> }

MainEdgesNoEntry ==
    { <<"get_time", "get_month_name">>,
      <<"get_month_name", "format">>,
      <<"is_AM", END>>,
      <<"is_PM", END>> }

MainEdges ==
    { <<START, "get_time">>,
      <<"get_time", "get_month_name">>,
      <<"get_month_name", "format">>,
      <<"is_AM", END>>,
      <<"is_PM", END>> }

\* add_conditional_edges("format", is_AM_or_PM, ["is_AM", "is_PM"])
MainBranchSource == "format"
MainBranchEnds == {"is_AM", "is_PM"}

MainGraph ==
    [ nodes  |-> Nodes,
      edges  |-> MainEdges,
      source |-> MainBranchSource,
      ends   |-> MainBranchEnds ]

----------------------------------------------------------------------------
(* Values *)

Timezones == {"America/New_York", "Asia/Seoul"}

Hours == 0 .. 23
Months == 1 .. MaxMonth

\* A datetime, reduced to the fields the program's behaviour depends on.
Datetimes == [hour : Hours, month : Months]

UtcOffsets == {<<"utc_offset", i>> : i \in 1 .. NumOffsets}
MonthNames == {<<"month_name", i>> : i \in 1 .. NumMonthNames}
Emojis == {<<"emoji", i>> : i \in 1 .. NumEmoji}

\* f"{state['time_data']}": the datetime rendered as a string.
DatetimeStr(dt) == <<"str", dt.month, dt.hour>>

\* f"{state['timezone']}" of a str is the same str.
StrOfStr(s) == s

\* The initial values main() passes to invoke.
Config(tz) ==
    [ get_time_prompt |-> "What is the current time?",
      timezone        |-> tz ]

\* d[k] = v on a Python dict.
SetItem(d, k, v) == (k :> v) @@ d

Has(d, k) == k \in DOMAIN d

EmptyDict == [k \in {} |-> k]

----------------------------------------------------------------------------
(* Graph validation performed by compile() *)

Succ(g, s) ==
    {e[2] : e \in {x \in g.edges : x[1] = s}}
        \cup (IF s = g.source THEN g.ends ELSE {})

RECURSIVE ReachFrom(_, _)
ReachFrom(g, S) ==
    LET T == S \cup UNION {Succ(g, s) : s \in S}
    IN  IF T = S THEN S ELSE ReachFrom(g, T)

HasEntry(g) == \E e \in g.edges : e[1] = START

AllReachable(g) == g.nodes \subseteq ReachFrom(g, {START})

LabelsMapped(g) == Labels \subseteq g.ends

DestsRegistered(g) ==
    \A s \in g.nodes \cup {START} : Succ(g, s) \subseteq g.nodes \cup {END}

OneRoute(g) ==
    \A s \in g.nodes :
        Cardinality({x \in g.edges : x[1] = s})
            + (IF s = g.source /\ g.ends # {} THEN 1 ELSE 0) <= 1

HasTerminal(g) == \E s \in g.nodes : Succ(g, s) \subseteq {END}

Validate(g) ==
    /\ HasEntry(g)
    /\ DestsRegistered(g)
    /\ OneRoute(g)
    /\ HasTerminal(g)
    /\ AllReachable(g)
    /\ LabelsMapped(g)

----------------------------------------------------------------------------
(* External collaborators: the HTTP endpoint and the two agents *)

Statuses == {200, 404, 500}
Bodies == {"json_datetime", "json_no_datetime", "not_json"}

Lookups ==
    {[kind |-> "network_error", status |-> 0, body |-> "none"]}
        \cup [kind : {"response"}, status : Statuses, body : Bodies]

NoLookup == [kind |-> "none", status |-> 0, body |-> "none"]

\* What the time agent's run_sync gives back: a validated TimeOutput, or an
\* exception (provider unreachable, output never matching the schema).
TimeAgentOutcomes ==
    {[ok |-> FALSE, time_data_output |-> [hour |-> 0, month |-> 1],
      utc_offset_output |-> <<"utc_offset", 1>>]}
        \cup [ok : {TRUE}, time_data_output : Datetimes,
              utc_offset_output : UtcOffsets]

MonthAgentOutcomes ==
    {[ok |-> FALSE, month_name_output |-> <<"month_name", 1>>,
      month_name_output_emoji |-> <<"emoji", 1>>]}
        \cup [ok : {TRUE}, month_name_output : MonthNames,
              month_name_output_emoji : Emojis]

\* The get_time tool: "raise" when the request, json.loads or ["datetime"]
\* raises, otherwise the value found under "datetime".
get_time(lk) ==
    IF lk.kind = "network_error" THEN "raise"
    ELSE IF lk.body = "not_json" THEN "raise"
    ELSE IF lk.body = "json_no_datetime" THEN "raise"
    ELSE "datetime"

----------------------------------------------------------------------------
(* The node functions: [ok, state], ok = FALSE when the function raises *)

Raised(st) == [ok |-> FALSE, state |-> st]
Returned(st) == [ok |-> TRUE, state |-> st]

\* Mutant of get_time_node: the utc_offset assignment is left out.
get_time_node_NoOffset(st, lk, out) ==
    IF ~(Has(st, "get_time_prompt") /\ Has(st, "timezone")) THEN Raised(st)
    ELSE IF get_time(lk) = "raise" THEN Raised(st)
    ELSE IF ~out.ok THEN Raised(st)
    ELSE Returned(SetItem(st, "time_data", out.time_data_output))

get_time_node(st, lk, out) ==
    IF ~(Has(st, "get_time_prompt") /\ Has(st, "timezone")) THEN Raised(st)
    ELSE IF get_time(lk) = "raise" THEN Raised(st)
    ELSE IF ~out.ok THEN Raised(st)
    ELSE Returned(SetItem(SetItem(st, "time_data", out.time_data_output),
                          "utc_offset", out.utc_offset_output))

get_month_name_node(st, out) ==
    IF ~Has(st, "time_data") THEN Raised(st)
    ELSE IF ~out.ok THEN Raised(st)
    ELSE Returned(SetItem(SetItem(st, "month_name", out.month_name_output),
                          "month_emoji", out.month_name_output_emoji))

FormatReads == {"time_data", "timezone", "utc_offset", "month_name", "month_emoji"}

\* Mutant of format_response: returns a fresh dict holding final_answer only.
format_response_Clearing(st) ==
    IF ~(FormatReads \subseteq DOMAIN st) THEN Raised(st)
    ELSE Returned([ final_answer |->
            [ current_time |-> DatetimeStr(st["time_data"]),
              timezone     |-> StrOfStr(st["timezone"]),
              utc_offset   |-> st["utc_offset"],
              month_name   |-> st["month_name"],
              month_emoji  |-> st["month_emoji"] ],
            time_data |-> st["time_data"] ])

format_response(st) ==
    IF ~(FormatReads \subseteq DOMAIN st) THEN Raised(st)
    ELSE Returned(SetItem(st, "final_answer",
            [ current_time |-> DatetimeStr(st["time_data"]),
              timezone     |-> StrOfStr(st["timezone"]),
              utc_offset   |-> st["utc_offset"],
              month_name   |-> st["month_name"],
              month_emoji  |-> st["month_emoji"] ]))

\* Mutant of add_AM: both markers set to True.
add_AM_Both(st) ==
    IF ~Has(st, "final_answer") THEN Raised(st)
    ELSE Returned(SetItem(st, "final_answer",
            SetItem(SetItem(st["final_answer"], "AM", TRUE), "PM", TRUE)))

add_AM(st) ==
    IF ~Has(st, "final_answer") THEN Raised(st)
    ELSE Returned(SetItem(st, "final_answer",
            SetItem(SetItem(st["final_answer"], "AM", TRUE), "PM", FALSE)))

add_PM(st) ==
    IF ~Has(st, "final_answer") THEN Raised(st)
    ELSE Returned(SetItem(st, "final_answer",
            SetItem(SetItem(st["final_answer"], "AM", FALSE), "PM", TRUE)))

\* Mutants of is_AM_or_PM: the comparison inverted, the boundary given to
\* is_AM, and the boundary falling through without a label.
is_AM_or_PM_Inverted(st) ==
    IF ~Has(st, "time_data") THEN "raise"
    ELSE IF st["time_data"].hour >= Noon THEN "is_AM"
    ELSE "is_PM"

is_AM_or_PM_NoonAM(st) ==
    IF ~Has(st, "time_data") THEN "raise"
    ELSE IF st["time_data"].hour <= Noon THEN "is_AM"
    ELSE "is_PM"

is_AM_or_PM_Partial(st) ==
    IF ~Has(st, "time_data") THEN "raise"
    ELSE IF st["time_data"].hour < Noon THEN "is_AM"
    ELSE IF st["time_data"].hour > Noon THEN "is_PM"
    ELSE "None"

\* The branch decision function; "raise" when time_data cannot be read.
is_AM_or_PM(st) ==
    IF ~Has(st, "time_data") THEN "raise"
    ELSE IF st["time_data"].hour < Noon THEN "is_AM"
    ELSE "is_PM"

----------------------------------------------------------------------------
(* The executor *)

\* Mutant of Route: the sibling branch step runs after is_AM.
Route_Sibling(g, s, st) ==
    IF s = g.source
    THEN LET l == is_AM_or_PM(st)
         IN  IF l = "raise" THEN [kind |-> "error", next |-> l]
             ELSE IF l \in g.ends THEN [kind |-> "step", next |-> l]
             ELSE [kind |-> "unmapped", next |-> l]
    ELSE IF s = "is_AM" THEN [kind |-> "step", next |-> "is_PM"]
    ELSE IF \E d \in g.nodes : <<s, d>> \in g.edges
    THEN [kind |-> "step", next |-> CHOOSE d \in g.nodes : <<s, d>> \in g.edges]
    ELSE [kind |-> "end", next |-> END]

\* The route taken after step s completed on state st.
Route(g, s, st) ==
    IF s = g.source
    THEN LET l == is_AM_or_PM(st)
         IN  IF l = "raise" THEN [kind |-> "error", next |-> l]
             ELSE IF l \in g.ends THEN [kind |-> "step", next |-> l]
             ELSE [kind |-> "unmapped", next |-> l]
    ELSE IF \E d \in g.nodes : <<s, d>> \in g.edges
    THEN [kind |-> "step", next |-> CHOOSE d \in g.nodes : <<s, d>> \in g.edges]
    ELSE [kind |-> "end", next |-> END]

EntryStep(g) == CHOOSE d \in g.nodes : <<START, d>> \in g.edges

InitRun(tz) ==
    /\ compiled = "none"
    /\ run = "Ready"
    /\ current = "none"
    /\ pos = "none"
    /\ state = Config(tz)
    /\ trace = <<>>
    /\ failed_step = "none"
    /\ error_kind = "none"
    /\ lookup = NoLookup
    /\ printed = FALSE
    /\ output = EmptyDict

Init ==
    /\ graph = MainGraph
    /\ runs = EmptyDict
    /\ \E tz \in Timezones : InitRun(tz)

\* app = workflow.compile()
Compile ==
    /\ compiled = "none"
    /\ compiled' = IF Validate(graph) THEN "ok" ELSE "GraphConfigurationError"
    /\ UNCHANGED <<graph, run, current, pos, state, trace, failed_step,
                   error_kind, lookup, printed, output, runs>>

\* app.invoke(config): the run leaves Ready for its entry step.
Invoke ==
    /\ compiled = "ok"
    /\ run = "Ready"
    /\ run' = "Running"
    /\ current' = EntryStep(graph)
    /\ pos' = "exec"
    /\ UNCHANGED <<graph, compiled, state, trace, failed_step, error_kind,
                   lookup, printed, output, runs>>

AtStep(name) ==
    /\ run = "Running"
    /\ pos = "exec"
    /\ current = name

\* Mutant of StepDone: the exception is recorded and the run carries on.
StepDoneContinue(name, res) ==
    /\ trace' = Append(trace, name)
    /\ pos' = "route"
    /\ IF res.ok
       THEN /\ state' = res.state
            /\ UNCHANGED <<run, current, failed_step, error_kind>>
       ELSE /\ failed_step' = name
            /\ error_kind' = "StepExecutionError"
            /\ UNCHANGED <<run, current, state>>
    /\ UNCHANGED <<graph, compiled, printed, output, runs>>

\* Mutant of StepDone: a step that raises is attempted a second time.
StepDone_Retry(name, res) ==
    /\ trace' = Append(trace, name)
    /\ IF res.ok
       THEN /\ state' = res.state
            /\ pos' = "route"
            /\ UNCHANGED <<run, current, failed_step, error_kind>>
       ELSE IF \E i \in DOMAIN trace : trace[i] = name
       THEN /\ run' = "Failed"
            /\ failed_step' = name
            /\ error_kind' = "StepExecutionError"
            /\ current' = "none"
            /\ pos' = "none"
            /\ UNCHANGED state
       ELSE UNCHANGED <<run, current, pos, state, failed_step, error_kind>>
    /\ UNCHANGED <<graph, compiled, printed, output, runs>>

\* The step ran: on return its state is kept and its route is pending, on an
\* exception the run fails with the step's name.
StepDone(name, res) ==
    /\ trace' = Append(trace, name)
    /\ IF res.ok
       THEN /\ state' = res.state
            /\ pos' = "route"
            /\ UNCHANGED <<run, current, failed_step, error_kind>>
       ELSE /\ run' = "Failed"
            /\ failed_step' = name
            /\ error_kind' = "StepExecutionError"
            /\ current' = "none"
            /\ pos' = "none"
            /\ UNCHANGED state
    /\ UNCHANGED <<graph, compiled, printed, output, runs>>

GetTimeNode ==
    /\ AtStep("get_time")
    /\ \E lk \in Lookups, out \in TimeAgentOutcomes :
        /\ lookup' = lk
        /\ StepDone("get_time", get_time_node(state, lk, out))

GetMonthNameNode ==
    /\ AtStep("get_month_name")
    /\ \E out \in MonthAgentOutcomes :
        StepDone("get_month_name", get_month_name_node(state, out))
    /\ UNCHANGED lookup

FormatResponse ==
    /\ AtStep("format")
    /\ StepDone("format", format_response(state))
    /\ UNCHANGED lookup

AddAM ==
    /\ AtStep("is_AM")
    /\ StepDone("is_AM", add_AM(state))
    /\ UNCHANGED lookup

AddPM ==
    /\ AtStep("is_PM")
    /\ StepDone("is_PM", add_PM(state))
    /\ UNCHANGED lookup

\* The edge resolver, consulted after the current step completed.
Resolve ==
    /\ run = "Running"
    /\ pos = "route"
    /\ LET r == Route(graph, current, state)
       IN  CASE r.kind = "step" ->
                    /\ current' = r.next
                    /\ pos' = "exec"
                    /\ UNCHANGED <<run, failed_step, error_kind>>
             [] r.kind = "end" ->
                    /\ run' = "Completed"
                    /\ current' = "none"
                    /\ pos' = "none"
                    /\ UNCHANGED <<failed_step, error_kind>>
             [] OTHER ->
                    /\ run' = "Failed"
                    /\ failed_step' = current
                    /\ error_kind' = "BranchEvaluationError"
                    /\ current' = "none"
                    /\ pos' = "none"
    /\ UNCHANGED <<graph, compiled, state, trace, lookup, printed, output, runs>>

\* Mutant of OutputFinalAnswer: the result is printed however the run ended.
OutputFinalAnswer_Always ==
    /\ run \in {"Completed", "Failed"}
    /\ ~printed
    /\ printed' = TRUE
    /\ output' = IF Has(state, "final_answer") THEN state["final_answer"]
                 ELSE EmptyDict
    /\ UNCHANGED <<graph, compiled, run, current, pos, state, trace,
                   failed_step, error_kind, lookup, runs>>

\* print(result["final_answer"])
OutputFinalAnswer ==
    /\ run = "Completed"
    /\ ~printed
    /\ Has(state, "final_answer")
    /\ printed' = TRUE
    /\ output' = state["final_answer"]
    /\ UNCHANGED <<graph, compiled, run, current, pos, state, trace,
                   failed_step, error_kind, lookup, runs>>

Next == Compile \/ Invoke \/ GetTimeNode \/ GetMonthNameNode \/ FormatResponse
            \/ AddAM \/ AddPM \/ Resolve \/ OutputFinalAnswer

Spec == Init /\ [][Next]_vars

\* Every call main() makes returns or raises, so a run that can move does.
FairSpec == Spec /\ WF_vars(Next)

\* Graphs as they could be built from the calls main() makes, some left out.
GraphFamily ==
    { [nodes |-> Nodes, edges |-> E, source |-> MainBranchSource, ends |-> L] :
        E \in SUBSET MainEdges, L \in SUBSET MainBranchEnds }

InitCompile ==
    /\ graph \in GraphFamily
    /\ runs = EmptyDict
    /\ \E tz \in Timezones : InitRun(tz)

SpecCompile == InitCompile /\ [][Next]_vars

----------------------------------------------------------------------------
(* Two callers invoking the compiled graph, each with its own state record *)

RunIds == {1, 2}

\* What invoke starts from: the caller's config, nothing executed yet.
NewRun(tz) ==
    [ input       |-> Config(tz),
      run         |-> "Ready",
      current     |-> "none",
      pos         |-> "none",
      state       |-> Config(tz),
      trace       |-> <<>>,
      failed_step |-> "none" ]

\* Mutant of StateOf: one module-level dict serves as the state of every run.
StateOf_Shared(rs, r) == rs[1].state

\* The state record handed to a node of run r: that run's own.
StateOf(rs, r) == rs[r].state

\* The agent outcomes drawn in the two-run specification.
ConcTimeOutcomes ==
    {o \in TimeAgentOutcomes :
        o.ok => o.time_data_output.hour \in {11, 12} /\ o.time_data_output.month = 1}

ConcMonthOutcomes ==
    {o \in MonthAgentOutcomes : o.ok => o.month_name_output_emoji = <<"emoji", 1>>}

singleVars == <<graph, run, current, pos, state, trace, failed_step,
                error_kind, lookup, printed, output>>

RunAt(r, name) ==
    /\ runs[r].run = "Running"
    /\ runs[r].pos = "exec"
    /\ runs[r].current = name

RunStepDone(r, name, res) ==
    /\ runs' = [runs EXCEPT ![r] =
            IF res.ok
            THEN [@ EXCEPT !.state = res.state,
                           !.pos = "route",
                           !.trace = Append(@, name)]
            ELSE [@ EXCEPT !.run = "Failed",
                           !.failed_step = name,
                           !.current = "none",
                           !.pos = "none",
                           !.trace = Append(@, name)]]
    /\ UNCHANGED <<singleVars, compiled>>

ConcInvoke ==
    \E r \in RunIds :
        /\ compiled = "ok"
        /\ runs[r].run = "Ready"
        /\ runs' = [runs EXCEPT ![r] =
                [@ EXCEPT !.run = "Running",
                          !.current = EntryStep(graph),
                          !.pos = "exec"]]
        /\ UNCHANGED <<singleVars, compiled>>

ConcGetTimeNode ==
    \E r \in RunIds :
        /\ RunAt(r, "get_time")
        /\ \E lk \in Lookups, out \in ConcTimeOutcomes :
            RunStepDone(r, "get_time", get_time_node(StateOf(runs, r), lk, out))

ConcGetMonthNameNode ==
    \E r \in RunIds :
        /\ RunAt(r, "get_month_name")
        /\ \E out \in ConcMonthOutcomes :
            RunStepDone(r, "get_month_name",
                        get_month_name_node(StateOf(runs, r), out))

ConcFormatResponse ==
    \E r \in RunIds :
        /\ RunAt(r, "format")
        /\ RunStepDone(r, "format", format_response(StateOf(runs, r)))

ConcAddAM ==
    \E r \in RunIds :
        /\ RunAt(r, "is_AM")
        /\ RunStepDone(r, "is_AM", add_AM(StateOf(runs, r)))

ConcAddPM ==
    \E r \in RunIds :
        /\ RunAt(r, "is_PM")
        /\ RunStepDone(r, "is_PM", add_PM(StateOf(runs, r)))

RunRouted(r, rt) ==
    /\ runs' = [runs EXCEPT ![r] =
            CASE rt.kind = "step" ->
                    [@ EXCEPT !.current = rt.next, !.pos = "exec"]
              [] rt.kind = "end" ->
                    [@ EXCEPT !.run = "Completed", !.current = "none",
                              !.pos = "none"]
              [] OTHER ->
                    [@ EXCEPT !.run = "Failed", !.failed_step = @.current,
                              !.current = "none", !.pos = "none"]]
    /\ UNCHANGED <<singleVars, compiled>>

\* Mutant of ConcResolve: at the branch the label comes from the wall clock
\* (datetime.now()) instead of the state, so it can be either label.
ConcResolve_Clock ==
    \E r \in RunIds :
        /\ runs[r].run = "Running"
        /\ runs[r].pos = "route"
        /\ IF runs[r].current = graph.source
           THEN \E l \in graph.ends : RunRouted(r, [kind |-> "step", next |-> l])
           ELSE RunRouted(r, Route(graph, runs[r].current, StateOf(runs, r)))

ConcResolve ==
    \E r \in RunIds :
        /\ runs[r].run = "Running"
        /\ runs[r].pos = "route"
        /\ RunRouted(r, Route(graph, runs[r].current, StateOf(runs, r)))

InitConcurrent ==
    /\ graph = MainGraph
    /\ runs \in [RunIds -> {NewRun(tz) : tz \in Timezones}]
    /\ \E tz \in Timezones : InitRun(tz)

NextConcurrent ==
    Compile \/ ConcInvoke \/ ConcGetTimeNode \/ ConcGetMonthNameNode
        \/ ConcFormatResponse \/ ConcAddAM \/ ConcAddPM \/ ConcResolve

SpecConcurrent == InitConcurrent /\ [][NextConcurrent]_vars

----------------------------------------------------------------------------
(* Properties *)

Last(seq) == seq[Len(seq)]

Executed(name) == \E i \in DOMAIN trace : trace[i] = name

Terminal == run \in {"Completed", "Failed"}

FinalAnswer == state["final_answer"]

\* C1: if a step fails, the run is Failed with the name of exactly that step
\* (the last one executed) attached, nothing executes after it, and a
\* failure of get_time leaves get_time as the only step ever executed.
C1_FatalPropagation ==
    /\ [](failed_step # "none" =>
            /\ run = "Failed"
            /\ trace # <<>>
            /\ failed_step = Last(trace)
            /\ (failed_step = "get_time" => trace = <<"get_time">>))
    /\ [][failed_step # "none" => trace' = trace /\ state' = state]_vars

C1_Witness ==
    /\ run = "Failed"
    /\ failed_step = "get_time"
    /\ error_kind = "StepExecutionError"
    /\ ~Executed("get_month_name")
    /\ ~Executed("format")

\* C2: no step name appears twice in the execution trace, in particular
\* not in the trace of a completed run.
C2_SingleExecution ==
    \A i, j \in DOMAIN trace : trace[i] = trace[j] => i = j

C2_Witness ==
    /\ run = "Completed"
    /\ Len(trace) = 4

\* C3: when get_time wrote an hour below 12, is_PM never executes, and a
\* run where no step fails takes the is_AM branch and completes with
\* final_answer AM = TRUE, PM = FALSE.
C3_MorningIsAM ==
    (Has(state, "time_data") /\ state["time_data"].hour < 12) =>
        /\ ~Executed("is_PM")
        /\ current # "is_PM"
        /\ (run = "Completed" =>
                /\ Executed("is_AM")
                /\ FinalAnswer["AM"] = TRUE
                /\ FinalAnswer["PM"] = FALSE)

C3_Witness ==
    /\ run = "Completed"
    /\ state["time_data"].hour = 9
    /\ Last(trace) = "is_AM"
    /\ FinalAnswer["AM"] = TRUE

\* C4: when get_time wrote an hour of 12 or more (12 included), is_AM never
\* executes, and a run where no step fails takes the is_PM branch and
\* completes with final_answer AM = FALSE, PM = TRUE.
C4_NoonOnwardsIsPM ==
    (Has(state, "time_data") /\ state["time_data"].hour >= 12) =>
        /\ ~Executed("is_AM")
        /\ current # "is_AM"
        /\ (run = "Completed" =>
                /\ Executed("is_PM")
                /\ FinalAnswer["AM"] = FALSE
                /\ FinalAnswer["PM"] = TRUE)

C4_Witness ==
    /\ run = "Completed"
    /\ state["time_data"].hour = 12
    /\ Last(trace) = "is_PM"
    /\ FinalAnswer["PM"] = TRUE

\* The slots each step writes, as the claim lists them.
Writes(name) ==
    CASE name = "get_time" -> {"time_data", "utc_offset"}
      [] name = "get_month_name" -> {"month_name", "month_emoji"}
      [] OTHER -> {"final_answer"}

\* C5: whenever a step executes, every slot it does not write is still
\* present afterwards with the value it had before.
C5_StateAdditivity ==
    [][trace' # trace =>
        \A k \in DOMAIN state :
            /\ k \in DOMAIN state'
            /\ (k \notin Writes(Last(trace')) => state'[k] = state[k])]_vars

C5_Witness ==
    /\ Len(trace) = 4
    /\ run = "Running"
    /\ pos = "route"
    /\ DOMAIN state = {"get_time_prompt", "timezone", "time_data", "utc_offset",
                       "month_name", "month_emoji", "final_answer"}

\* The run transitions the executor may make.
C6_Transition ==
    /\ (run = "Ready" =>
            \/ run' = "Ready" /\ trace' = trace
            \/ run' = "Running" /\ pos' = "exec" /\ current' = "get_time")
    /\ (run = "Running" /\ run' = "Running" /\ current' # current =>
            /\ pos = "route"
            /\ pos' = "exec"
            /\ current' \in Succ(graph, current) \ {END})
    /\ (run = "Running" /\ run' = "Completed" =>
            /\ pos = "route"
            /\ Succ(graph, current) \subseteq {END})
    /\ (run = "Running" /\ run' = "Failed" =>
            /\ failed_step' = current
            /\ state' = state)
    /\ (run = "Running" => run' # "Ready")
    /\ (Terminal => run' = run /\ trace' = trace /\ state' = state)

\* C6: a run that has started ends in Completed or Failed, nothing executes
\* after that, and the run only moves Ready -> Running(entry),
\* Running(s) -> Running(next), Running(s) -> Completed when s has no next
\* step, and Running(s) -> Failed.
C6_RunStateMachine ==
    /\ [][C6_Transition]_vars
    /\ (run = "Running" ~> Terminal)

C6_Witness ==
    /\ run = "Completed"
    /\ printed
    /\ Len(trace) = 4

Chain == <<"get_time", "get_month_name", "format">>

\* C7: the trace is always a prefix of get_time, get_month_name, format,
\* then one of is_AM / is_PM; a completed run has executed all four; a
\* branch step is selected only once format has completed.
C7_ExecutionOrder ==
    /\ Len(trace) <= 4
    /\ \A i \in DOMAIN trace :
            IF i <= 3 THEN trace[i] = Chain[i] ELSE trace[i] \in {"is_AM", "is_PM"}
    /\ (run = "Completed" => Len(trace) = 4)
    /\ (run = "Running" /\ pos = "exec" =>
            /\ Len(trace) <= 3
            /\ (Len(trace) < 3 => current = Chain[Len(trace) + 1])
            /\ (Len(trace) = 3 => current \in {"is_AM", "is_PM"}))
    /\ (run = "Running" /\ pos = "route" => current = Last(trace))
    /\ (current \in {"is_AM", "is_PM"} => SubSeq(trace, 1, 3) = Chain)

C7_Witness ==
    /\ run = "Completed"
    /\ trace = <<"get_time", "get_month_name", "format", "is_PM">>

\* The lookup outcomes the claim counts as failures.
LookupFailed(lk) ==
    \/ lk.kind = "network_error"
    \/ lk.kind = "response" /\ ~(lk.status \in 200 .. 299)
    \/ lk.kind = "response" /\ lk.body # "json_datetime"

\* C8: when the time lookup failed (network error, non-2xx response or a
\* payload without a usable datetime), the run is Failed at get_time and
\* time_data and utc_offset are not populated.
C8_LookupFailurePropagates ==
    LookupFailed(lookup) =>
        /\ run = "Failed"
        /\ failed_step = "get_time"
        /\ ~Has(state, "time_data")
        /\ ~Has(state, "utc_offset")
        /\ ~Executed("format")

\* C9: at the branch point after format the decision function returns a
\* label of the declared set that has a registered destination step, and
\* no run ends in a branch evaluation error.
C9_BranchTotal ==
    /\ (run = "Running" /\ pos = "route" /\ current = "format" =>
            /\ is_AM_or_PM(state) \in Labels
            /\ is_AM_or_PM(state) \in graph.ends
            /\ is_AM_or_PM(state) \in graph.nodes
            /\ Route(graph, current, state).kind = "step")
    /\ error_kind # "BranchEvaluationError"

C9_Witness ==
    /\ run = "Running"
    /\ pos = "route"
    /\ current = "format"
    /\ Has(state, "final_answer")

C12_NoResultOnFailure ==
    /\ (run = "Failed" => ~printed)
    /\ (printed =>
            /\ run = "Completed"
            /\ Has(state, "final_answer")
            /\ output = state["final_answer"])

C12_Witness ==
    /\ run = "Failed"
    /\ failed_step = "get_month_name"
    /\ Has(state, "time_data")
    /\ ~printed

\* C14: is_AM and is_PM never both execute in one run; the state record
\* changes only by the step that is executing; the next step is selected
\* only once the current one has executed.
C14_SingleActiveStep ==
    /\ [](~(Executed("is_AM") /\ Executed("is_PM")))
    /\ [][/\ (state' # state =>
                /\ run = "Running"
                /\ pos = "exec"
                /\ trace' = Append(trace, current))
          /\ (run = "Running" /\ run' = "Running" /\ current' # current =>
                /\ pos = "route"
                /\ trace' = trace
                /\ trace # <<>>
                /\ Last(trace) = current)]_vars

C14_Witness ==
    /\ run = "Completed"
    /\ Executed("is_AM")
    /\ ~Executed("is_PM")

\* The slots each step reads, as the claim lists them (get_time reads the
\* two slots the caller supplies).
C15_Reads(name) ==
    CASE name = "get_time" -> {"get_time_prompt", "timezone"}
      [] name = "get_month_name" -> {"time_data"}
      [] name = "format" -> {"time_data", "timezone", "utc_offset",
                             "month_name", "month_emoji"}
      [] OTHER -> {"final_answer"}

\* C15: every slot a step or the decision function is about to read is
\* present, and every present slot was supplied by the caller or written by
\* a step executed earlier in the run.
C15_NoAbsentRead ==
    /\ (run = "Running" /\ pos = "exec" => C15_Reads(current) \subseteq DOMAIN state)
    /\ (run = "Running" /\ pos = "route" /\ current = "format" =>
            Has(state, "time_data"))
    /\ \A k \in DOMAIN state :
            \/ k \in {"get_time_prompt", "timezone"}
            \/ \E i \in DOMAIN trace : k \in Writes(trace[i])

C15_Witness ==
    /\ run = "Running"
    /\ pos = "exec"
    /\ current = "format"
    /\ Has(state, "month_emoji")

\* C16: a step that fails was attempted exactly once, nothing is executed
\* twice, and the failing attempt takes the run directly to Failed.
C16_NoRetry ==
    /\ [](run = "Failed" =>
            /\ Cardinality({i \in DOMAIN trace : trace[i] = failed_step}) = 1
            /\ \A i, j \in DOMAIN trace : trace[i] = trace[j] => i = j)
    /\ [][trace' # trace /\ pos' # "route" =>
            /\ run' = "Failed"
            /\ failed_step' = Last(trace')
            /\ Len(trace') = Len(trace) + 1]_vars

C16_Witness ==
    /\ run = "Failed"
    /\ trace = <<"get_time", "get_month_name">>
    /\ error_kind = "StepExecutionError"

FinalKeys == {"current_time", "timezone", "utc_offset", "month_name",
              "month_emoji", "AM", "PM"}

\* C17: the final_answer of a completed run has exactly the seven keys, its
\* timezone, utc_offset, month_name and month_emoji are those of the state,
\* the timezone slot never changes, AM is the negation of PM; before the
\* branch step has run final_answer has neither AM nor PM.
C17_FinalAnswerShape ==
    /\ [](/\ (run = "Completed" => Has(state, "final_answer"))
          /\ (Has(state, "final_answer") =>
                /\ FinalAnswer["timezone"] = state["timezone"]
                /\ FinalAnswer["utc_offset"] = state["utc_offset"]
                /\ FinalAnswer["month_name"] = state["month_name"]
                /\ FinalAnswer["month_emoji"] = state["month_emoji"]
                /\ (run = "Completed" =>
                        /\ DOMAIN FinalAnswer = FinalKeys
                        /\ FinalAnswer["AM"] \in BOOLEAN
                        /\ FinalAnswer["PM"] \in BOOLEAN
                        /\ FinalAnswer["AM"] = ~FinalAnswer["PM"])
                /\ (~Executed("is_AM") /\ ~Executed("is_PM") =>
                        DOMAIN FinalAnswer \cap {"AM", "PM"} = {})))
    /\ [][state'["timezone"] = state["timezone"]]_vars

C17_Witness ==
    /\ run = "Completed"
    /\ DOMAIN FinalAnswer = FinalKeys
    /\ FinalAnswer["PM"] = TRUE
    /\ FinalAnswer["timezone"] = "Asia/Seoul"

\* The run r has just left the branch point: format is its last executed
\* step and a branch step has been selected.
PastBranch(r) ==
    /\ runs[r].run = "Running"
    /\ runs[r].pos = "exec"
    /\ Len(runs[r].trace) = 3

StepReturned(rec, name) ==
    /\ \E i \in DOMAIN rec.trace : rec.trace[i] = name
    /\ rec.failed_step # name

\* The state a run reaches when its trace is executed alone on its own
\* input, with the agent outputs found in its record.
Alone(rec) ==
    LET st == rec.state
        s1 == IF StepReturned(rec, "get_time")
              THEN SetItem(SetItem(rec.input, "time_data", st["time_data"]),
                           "utc_offset", st["utc_offset"])
              ELSE rec.input
        s2 == IF StepReturned(rec, "get_month_name")
              THEN SetItem(SetItem(s1, "month_name", st["month_name"]),
                           "month_emoji", st["month_emoji"])
              ELSE s1
        s3 == IF StepReturned(rec, "format") THEN format_response(s2).state ELSE s2
        s4 == IF StepReturned(rec, "is_AM") THEN add_AM(s3).state ELSE s3
        s5 == IF StepReturned(rec, "is_PM") THEN add_PM(s4).state ELSE s4
    IN  s5

\* The slots the steps that returned have written, with the caller's.
AloneDomain(rec) ==
    DOMAIN rec.input
        \cup UNION {Writes(n) : n \in {m \in Nodes : StepReturned(rec, m)}}

\* The trace a run follows alone: the chain, then the branch its own hour
\* selects.
AloneTrace(rec) ==
    /\ Len(rec.trace) <= 4
    /\ \A i \in DOMAIN rec.trace :
            IF i <= 3 THEN rec.trace[i] = Chain[i]
            ELSE rec.trace[i] =
                    (IF rec.state["time_data"].hour < 12 THEN "is_AM" ELSE "is_PM")

\* C13: under every interleaving each run's trace and state are those of
\* the run executed alone on its own input, a transition changes the record
\* of one run only, and no step changes anything outside the run's record.
C13_NoInterference ==
    /\ [](\A r \in RunIds :
            /\ DOMAIN runs[r].state = AloneDomain(runs[r])
            /\ runs[r].state = Alone(runs[r])
            /\ AloneTrace(runs[r]))
    /\ [][runs' # runs =>
            /\ \E r \in RunIds : \A q \in RunIds \ {r} : runs'[q] = runs[q]
            /\ \A r \in RunIds : runs'[r].input = runs[r].input
            /\ UNCHANGED <<graph, compiled>>]_vars

C13_Witness ==
    /\ runs[1].run = "Completed"
    /\ runs[2].run = "Running"
    /\ runs[2].pos = "exec"
    /\ runs[2].current = "get_month_name"
    /\ runs[1].state["timezone"] # runs[2].state["timezone"]
    /\ runs[1].state["time_data"] # runs[2].state["time_data"]

====
